---------------------------- MODULE Spec2Model ----------------------------
(***************************************************************************)
(* Hierarchical folding of field values (icicle backend, utils.rs).        *)
(*                                                                         *)
(* fold / fold_gpu are executed step by step on an explicit call stack:    *)
(* one frame per invocation, one action per statement of the function.     *)
(* The base field is M31, the extension field QM31, as in the test of the  *)
(* source file.                                                            *)
(***************************************************************************)
EXTENDS Integers, Sequences, FiniteSets, TLC

VARIABLES
    values,           \* the top-level `values` slice
    folding_factors,  \* the top-level `folding_factors` slice
    overflow_checks,  \* build profile: TRUE = debug (checked shifts), FALSE = release
    stack,            \* call stack, innermost invocation last
    cost,             \* operations performed by the running top-level call
    outcome,          \* per entry point: what the top-level call produced
    tasks             \* fork/join evaluation of the same recursion (ParSpec only)

vars == <<values, folding_factors, overflow_checks, stack, cost, outcome, tasks>>

---------------------------------------------------------------------------
(* Field arithmetic: M31 = Z/(2^31 - 1), CM31 = M31[i]/(i^2 + 1),          *)
(* QM31 = CM31[u]/(u^2 - 2 - i).  A QM31 element is <<a, b, c, d>> for     *)
(* (a + b i) + (c + d i) u, the argument order of from_u32_unchecked.      *)

P == 2147483647

AddM31(a, b) == IF a >= P - b THEN a - (P - b) ELSE a + b

SubM31(a, b) == IF a >= b THEN a - b ELSE a + (P - b)

\* x * 2^k modulo 2^31 - 1 is a rotation of the 31 bits of x.
RotM31(x, k) ==
    IF k = 0 THEN x
    ELSE LET r == (x % (2 ^ (31 - k))) * (2 ^ k) + (x \div (2 ^ (31 - k)))
         IN  IF r = P THEN 0 ELSE r

Limb(x, i) == (x \div (2 ^ (11 * i))) % 2048

\* Product by 11-bit limbs, so that no intermediate exceeds 31 bits.
MulM31(a, b) ==
    IF a < 32768 /\ b < 32768 THEN (a * b) % P ELSE
    LET t(i, j) == RotM31(Limb(a, i) * Limb(b, j), (11 * (i + j)) % 31)
        row(i)  == AddM31(t(i, 0), AddM31(t(i, 1), t(i, 2)))
    IN  AddM31(row(0), AddM31(row(1), row(2)))

AddCM31(x, y) == <<AddM31(x[1], y[1]), AddM31(x[2], y[2])>>

SubCM31(x, y) == <<SubM31(x[1], y[1]), SubM31(x[2], y[2])>>

MulCM31(x, y) ==
    <<SubM31(MulM31(x[1], y[1]), MulM31(x[2], y[2])),
      AddM31(MulM31(x[1], y[2]), MulM31(x[2], y[1]))>>

RCM31 == <<2, 1>>

Lo(e) == <<e[1], e[2]>>

Hi(e) == <<e[3], e[4]>>

MkE(x, y) == <<x[1], x[2], y[1], y[2]>>

AddE(x, y) == MkE(AddCM31(Lo(x), Lo(y)), AddCM31(Hi(x), Hi(y)))

SubE(x, y) == MkE(SubCM31(Lo(x), Lo(y)), SubCM31(Hi(x), Hi(y)))

MulE(x, y) ==
    MkE(AddCM31(MulCM31(Lo(x), Lo(y)), MulCM31(MulCM31(RCM31, Hi(x)), Hi(y))),
        AddCM31(MulCM31(Lo(x), Hi(y)), MulCM31(Hi(x), Lo(y))))

\* values[0].into(): the embedding of the base field into the extension.
Embed(v) == <<v, 0, 0, 0>>

ZeroE == <<0, 0, 0, 0>>

OneE == <<1, 0, 0, 0>>

---------------------------------------------------------------------------
(* Inputs.                                                                 *)

MaxLog == 2

UsizeBits == 64

\* Shift amounts up to MaxExp give a value the model can hold; slice
\* lengths stay far below 2^MaxExp.
MaxExp == 30

FV == {1, P - 1}

GE == <<P - 2, 1, 0, 3>>

EV == {OneE, GE}

SeqsOf(S, n) == [1..n -> S]

Pow2(k) == 2 ^ k

GenInputs ==
    { [v |-> v, f |-> f] :
        v \in UNION { SeqsOf(FV, n) : n \in 0..Pow2(MaxLog) },
        f \in UNION { SeqsOf(EV, k) : k \in 0..(MaxLog + 1) } }

\* tests::test_fold_works
TestValues == <<1, 2, 3, 4, 5, 6, 7, 8>>

TestFactors == <<Embed(2), Embed(3), Embed(4)>>

TestExpected == Embed(358)

Const(n, x) == [i \in 1..n |-> x]

ExtraInputs ==
    { [v |-> TestValues, f |-> TestFactors],
      [v |-> <<1, 2, 3, 4, 5, 6>>, f |-> <<>>],
      [v |-> <<1, 2, 3, 4, 5, 6>>, f |-> <<GE, GE>>],
      [v |-> <<1, 2, 3, 4, 5, 6>>, f |-> TestFactors],
      [v |-> <<5>>, f |-> <<>>],
      [v |-> <<5>>, f |-> Const(UsizeBits, GE)],
      [v |-> <<5, 7>>, f |-> Const(UsizeBits, GE)],
      [v |-> <<5, 7>>, f |-> Const(UsizeBits + 1, GE)] }

Inputs == GenInputs \cup ExtraInputs

---------------------------------------------------------------------------
(* The statements of fold and fold_gpu.                                    *)

Entries == {"fold", "fold_gpu"}

None == [status |-> "none"]

Panic == [status |-> "panicked"]

ZeroCost ==
    [leaves |-> 0, combines |-> 0, muls |-> 0, adds |-> 0, calls |-> 0,
     factors_used |-> 0, steps |-> 0]

\* `1 << k` on usize.  A shift by k >= UsizeBits panics when overflow
\* checks are compiled in and shifts by k mod UsizeBits otherwise.
\* The result is [ok, exp]: the value 2^exp, or the shift panicked.
Shl1(k, checks) ==
    IF k >= UsizeBits /\ checks
    THEN [ok |-> FALSE, exp |-> 0]
    ELSE [ok |-> TRUE, exp |-> k % UsizeBits]

\* n == 1 << exp, for a slice length n < 2^MaxExp.
EqShl(n, exp) == exp <= MaxExp /\ n = Pow2(exp)

\* assert_eq!(n, 1 << folding_factors.len()) of fold: TRUE when it passes.
FoldAssert(n, k, checks) ==
    LET s == Shl1(k, checks) IN s.ok /\ EqShl(n, s.exp)

\* The same assertion of fold_gpu.
GpuAssert(n, k, checks) ==
    LET s == Shl1(k, checks) IN s.ok /\ EqShl(n, s.exp)

AssertPasses(fn, n, k, checks) ==
    IF fn = "fold" THEN FoldAssert(n, k, checks) ELSE GpuAssert(n, k, checks)

\* Variant: the base case returns the zero of the extension field.
BaseReturnZero(vs) == ZeroE

\* return values[0].into()
BaseReturn(vs) == Embed(vs[1])

\* Variant: odd/even interleaved split.
SplitAtInterleaved(vs, mid) ==
    [lhs |-> [i \in 1..mid |-> vs[2 * i - 1]],
     rhs |-> [i \in 1..(Len(vs) - mid) |-> vs[2 * i]]]

\* Variant: the split peels off one element instead of halving.
SplitAtUneven(vs, mid) ==
    [lhs |-> SubSeq(vs, 1, 1), rhs |-> SubSeq(vs, 2, Len(vs))]

\* values.split_at(n / 2)
SplitAt(vs, mid) ==
    [lhs |-> SubSeq(vs, 1, mid), rhs |-> SubSeq(vs, mid + 1, Len(vs))]

\* Variant: the factor of this level is not removed from the list.
SplitFirstKeep(fs) ==
    IF fs = <<>> THEN [some |-> FALSE]
    ELSE [some |-> TRUE, first |-> Head(fs), rest |-> fs]

\* folding_factors.split_first()
SplitFirst(fs) ==
    IF fs = <<>> THEN [some |-> FALSE]
    ELSE [some |-> TRUE, first |-> Head(fs), rest |-> Tail(fs)]

\* Variant: the factor weights the left half.
FoldCombineLeft(lhs_val, rhs_val, folding_factor) ==
    AddE(MulE(lhs_val, folding_factor), rhs_val)

\* Variant: the factor is applied twice.
FoldCombineSquared(lhs_val, rhs_val, folding_factor) ==
    AddE(lhs_val, MulE(MulE(rhs_val, folding_factor), folding_factor))

\* lhs_val + rhs_val * *folding_factor   (fold)
FoldCombine(lhs_val, rhs_val, folding_factor) ==
    AddE(lhs_val, MulE(rhs_val, folding_factor))

\* Variant: the alternate path drops the factor.
GpuCombineNoFactor(lhs_val, rhs_val, folding_factor) ==
    AddE(lhs_val, rhs_val)

\* lhs_val + rhs_val * *folding_factor   (fold_gpu)
GpuCombine(lhs_val, rhs_val, folding_factor) ==
    AddE(lhs_val, MulE(rhs_val, folding_factor))

Combine(fn, l, r, f) ==
    IF fn = "fold" THEN FoldCombine(l, r, f) ELSE GpuCombine(l, r, f)

\* A new invocation of fn on (vs, fs), about to execute its first statement.
Frame(fn, vs, fs) ==
    [fn |-> fn, values |-> vs, folding_factors |-> fs, pc |-> "assert",
     lhs_values |-> <<>>, rhs_values |-> <<>>, folding_factor |-> ZeroE,
     rest |-> <<>>, lhs_val |-> ZeroE, rhs_val |-> ZeroE]

Returned(v) == [status |-> "returned", val |-> v]

\* fold as a function of its arguments: the value it returns, or Panic.
RECURSIVE fold(_, _, _)
fold(vs, fs, checks) ==
    LET n == Len(vs) IN
    IF ~FoldAssert(n, Len(fs), checks) THEN Panic
    ELSE IF n = 1 THEN Returned(BaseReturn(vs))
    ELSE LET halves == SplitAt(vs, n \div 2)
             sf     == SplitFirst(fs)
         IN  IF ~sf.some THEN Panic
             ELSE LET lhs_val == fold(halves.lhs, sf.rest, checks) IN
                  IF lhs_val.status = "panicked" THEN Panic
                  ELSE LET rhs_val == fold(halves.rhs, sf.rest, checks) IN
                       IF rhs_val.status = "panicked" THEN Panic
                       ELSE Returned(FoldCombine(lhs_val.val, rhs_val.val, sf.first))

Top == stack[Len(stack)]

Running == stack # <<>>

Entry == stack[1].fn

SetTop(fr) == [stack EXCEPT ![Len(stack)] = fr]

Pop == SubSeq(stack, 1, Len(stack) - 1)

---------------------------------------------------------------------------
(* Actions.                                                                *)

Init ==
    /\ \E inp \in Inputs : values = inp.v /\ folding_factors = inp.f
    /\ overflow_checks \in BOOLEAN
    /\ stack = <<>>
    /\ cost = ZeroCost
    /\ outcome = [e \in Entries |-> None]
    /\ tasks = <<>>

\* A caller invokes the entry points on the inputs, fold first.
Call(fn) ==
    /\ ~Running
    /\ tasks = <<>>
    /\ outcome[fn] = None
    /\ fn = "fold_gpu" => outcome["fold"] # None
    /\ stack' = <<Frame(fn, values, folding_factors)>>
    /\ cost' = [ZeroCost EXCEPT !.calls = 1]
    /\ UNCHANGED <<values, folding_factors, overflow_checks, outcome, tasks>>

\* A panic unwinds the whole stack: the top-level call produces no value.
PanicNow ==
    /\ stack' = <<>>
    /\ outcome' = [outcome EXCEPT ![Entry] =
                      [status |-> "panicked", depth |-> Len(stack), cost |-> cost]]
    /\ cost' = cost

\* The invocation on top of the stack returns v to its caller.
ReturnWith(v, c) ==
    IF Len(stack) = 1
    THEN /\ stack' = <<>>
         /\ outcome' = [outcome EXCEPT ![Entry] =
                           [status |-> "returned", val |-> v, cost |-> c]]
         /\ cost' = c
    ELSE LET caller == stack[Len(stack) - 1] IN
         /\ stack' = [Pop EXCEPT ![Len(stack) - 1] =
                IF caller.pc = "wait_lhs"
                THEN [caller EXCEPT !.lhs_val = v, !.pc = "call_rhs"]
                ELSE [caller EXCEPT !.rhs_val = v, !.pc = "combine"]]
         /\ outcome' = outcome
         /\ cost' = c

\* let n = values.len(); assert_eq!(n, 1 << folding_factors.len());
AssertStep ==
    /\ Running /\ Top.pc = "assert"
    /\ IF AssertPasses(Top.fn, Len(Top.values), Len(Top.folding_factors),
                       overflow_checks)
       THEN /\ stack' = SetTop([Top EXCEPT !.pc = "checked"])
            /\ cost' = [cost EXCEPT !.steps = @ + 1]
            /\ outcome' = outcome
       ELSE PanicNow
    /\ UNCHANGED <<values, folding_factors, overflow_checks, tasks>>

\* if n == 1 { return values[0].into(); }
BaseCase ==
    /\ Running /\ Top.pc = "checked"
    /\ Len(Top.values) = 1
    /\ ReturnWith(BaseReturn(Top.values), [cost EXCEPT !.leaves = @ + 1, !.steps = @ + 1])
    /\ UNCHANGED <<values, folding_factors, overflow_checks, tasks>>

\* let (lhs_values, rhs_values) = values.split_at(n / 2);
\* let (folding_factor, folding_factors) = folding_factors.split_first().unwrap();
Split ==
    /\ Running /\ Top.pc = "checked"
    /\ Len(Top.values) # 1
    /\ LET halves == SplitAt(Top.values, Len(Top.values) \div 2)
           sf     == SplitFirst(Top.folding_factors)
       IN  IF sf.some
           THEN /\ stack' = SetTop([Top EXCEPT !.pc = "call_lhs",
                                               !.lhs_values = halves.lhs,
                                               !.rhs_values = halves.rhs,
                                               !.folding_factor = sf.first,
                                               !.rest = sf.rest])
                /\ cost' = [cost EXCEPT !.factors_used = @ + 1, !.steps = @ + 1]
                /\ outcome' = outcome
           ELSE PanicNow
    /\ UNCHANGED <<values, folding_factors, overflow_checks, tasks>>

\* let lhs_val = fold(lhs_values, folding_factors);
CallLhs ==
    /\ Running /\ Top.pc = "call_lhs"
    /\ stack' = Append(SetTop([Top EXCEPT !.pc = "wait_lhs"]),
                       Frame("fold", Top.lhs_values, Top.rest))
    /\ cost' = [cost EXCEPT !.calls = @ + 1, !.steps = @ + 1]
    /\ UNCHANGED <<values, folding_factors, overflow_checks, outcome, tasks>>

\* let rhs_val = fold(rhs_values, folding_factors);
CallRhs ==
    /\ Running /\ Top.pc = "call_rhs"
    /\ stack' = Append(SetTop([Top EXCEPT !.pc = "wait_rhs"]),
                       Frame("fold", Top.rhs_values, Top.rest))
    /\ cost' = [cost EXCEPT !.calls = @ + 1, !.steps = @ + 1]
    /\ UNCHANGED <<values, folding_factors, overflow_checks, outcome, tasks>>

\* lhs_val + rhs_val * *folding_factor
CombineStep ==
    /\ Running /\ Top.pc = "combine"
    /\ ReturnWith(Combine(Top.fn, Top.lhs_val, Top.rhs_val, Top.folding_factor),
                  [cost EXCEPT !.combines = @ + 1, !.muls = @ + 1, !.adds = @ + 1,
                               !.steps = @ + 1])
    /\ UNCHANGED <<values, folding_factors, overflow_checks, tasks>>

Next ==
    \/ \E fn \in Entries : Call(fn)
    \/ AssertStep
    \/ BaseCase
    \/ Split
    \/ CallLhs
    \/ CallRhs
    \/ CombineStep

Spec == Init /\ [][Next]_vars

---------------------------------------------------------------------------
(* Fork/join evaluation: the same statements, with the two sub-calls of an *)
(* invocation evaluated as independent tasks in any interleaving and       *)
(* joined before the combine step.  A task is named by its path from the   *)
(* root, "l" for the left sub-call and "r" for the right one.              *)

ParValues ==
    UNION { { [i \in 1..n |-> i], [i \in 1..n |-> P - i] } : n \in 0..Pow2(MaxLog) }

ParFactors ==
    UNION { { [i \in 1..k |-> GE],
              [i \in 1..k |-> IF i % 2 = 1 THEN Embed(i + 1) ELSE GE] } :
            k \in 0..(MaxLog + 1) }

ParInputs ==
    { [v |-> v, f |-> f] : v \in ParValues, f \in ParFactors } \cup ExtraInputs

Task(vs, fs) ==
    [values |-> vs, folding_factors |-> fs, pc |-> "assert",
     folding_factor |-> ZeroE, lhs_val |-> ZeroE, rhs_val |-> ZeroE,
     have_lhs |-> FALSE, have_rhs |-> FALSE]

Child(p, side) == p \o <<side>>

\* Variant: results are stored in the order in which the sub-calls finish.
DeliverByArrival(parent, side, v) ==
    IF ~parent.have_lhs
    THEN [parent EXCEPT !.lhs_val = v, !.have_lhs = TRUE]
    ELSE [parent EXCEPT !.rhs_val = v, !.have_rhs = TRUE]

\* let lhs_val = fold(lhs_values, ..); let rhs_val = fold(rhs_values, ..);
\* each sub-call's value is bound to its own variable.
Deliver(parent, side, v) ==
    IF side = "l"
    THEN [parent EXCEPT !.lhs_val = v, !.have_lhs = TRUE]
    ELSE [parent EXCEPT !.rhs_val = v, !.have_rhs = TRUE]

Without(f, ks) == [k \in DOMAIN f \ ks |-> f[k]]

ParInit ==
    /\ \E inp \in ParInputs : values = inp.v /\ folding_factors = inp.f
    /\ overflow_checks \in BOOLEAN
    /\ stack = <<>>
    /\ cost = ZeroCost
    /\ outcome = [e \in Entries |-> None]
    /\ tasks = <<>>

ParCall ==
    /\ tasks = <<>>
    /\ outcome["fold"] = None
    /\ tasks' = (<<>> :> Task(values, folding_factors))
    /\ UNCHANGED <<values, folding_factors, overflow_checks, stack, cost, outcome>>

\* A panic in any task aborts the whole computation.
ParPanic(p) ==
    /\ tasks' = <<>>
    /\ outcome' = [outcome EXCEPT !["fold"] =
                      [status |-> "panicked", depth |-> Len(p) + 1, cost |-> cost]]

\* assert_eq!(n, 1 << folding_factors.len());
ParAssert(p) ==
    /\ tasks[p].pc = "assert"
    /\ IF FoldAssert(Len(tasks[p].values), Len(tasks[p].folding_factors),
                     overflow_checks)
       THEN /\ tasks' = [tasks EXCEPT ![p].pc = "checked"]
            /\ outcome' = outcome
       ELSE ParPanic(p)
    /\ UNCHANGED <<values, folding_factors, overflow_checks, stack, cost>>

\* Return: the finished invocation hands its value to its caller's variable
\* (the join), the root to the caller of fold.
ParReturn(p, v) ==
    IF p = <<>>
    THEN /\ tasks' = <<>>
         /\ outcome' = [outcome EXCEPT !["fold"] =
                           [status |-> "returned", val |-> v, cost |-> cost]]
    ELSE LET parent == SubSeq(p, 1, Len(p) - 1) IN
         /\ tasks' = Without([tasks EXCEPT ![parent] =
                                 Deliver(tasks[parent], p[Len(p)], v)],
                             {p})
         /\ outcome' = outcome

\* if n == 1 { return values[0].into(); }
ParBase(p) ==
    /\ tasks[p].pc = "checked"
    /\ Len(tasks[p].values) = 1
    /\ ParReturn(p, BaseReturn(tasks[p].values))
    /\ UNCHANGED <<values, folding_factors, overflow_checks, stack, cost>>

\* split_at, split_first, and the two sub-calls started as tasks.
ParFork(p) ==
    /\ tasks[p].pc = "checked"
    /\ Len(tasks[p].values) # 1
    /\ LET halves == SplitAt(tasks[p].values, Len(tasks[p].values) \div 2)
           sf     == SplitFirst(tasks[p].folding_factors)
       IN  IF sf.some
           THEN /\ tasks' =
                     [tasks EXCEPT ![p].pc = "forked",
                                   ![p].folding_factor = sf.first]
                     @@ (Child(p, "l") :> Task(halves.lhs, sf.rest))
                     @@ (Child(p, "r") :> Task(halves.rhs, sf.rest))
                /\ outcome' = outcome
           ELSE ParPanic(p)
    /\ UNCHANGED <<values, folding_factors, overflow_checks, stack, cost>>

\* lhs_val + rhs_val * *folding_factor, once both sub-calls have returned.
ParCombine(p) ==
    /\ tasks[p].pc = "forked"
    /\ tasks[p].have_lhs /\ tasks[p].have_rhs
    /\ ParReturn(p, FoldCombine(tasks[p].lhs_val, tasks[p].rhs_val,
                                tasks[p].folding_factor))
    /\ UNCHANGED <<values, folding_factors, overflow_checks, stack, cost>>

ParNext ==
    \/ ParCall
    \/ \E p \in DOMAIN tasks : ParAssert(p)
    \/ \E p \in DOMAIN tasks : ParBase(p)
    \/ \E p \in DOMAIN tasks : ParFork(p)
    \/ \E p \in DOMAIN tasks : ParCombine(p)

ParSpec == ParInit /\ [][ParNext]_vars

---------------------------------------------------------------------------
(* Properties.                                                             *)

\* The relation the documentation requires of a call: n = 2^k.
ValidInput(vs, fs) == Len(fs) <= MaxExp /\ Len(vs) = Pow2(Len(fs))

ValidTop == ValidInput(values, folding_factors)

Done(e) == outcome[e].status # "none"

Ret(e) == outcome[e].status = "returned"

Panicked(e) == outcome[e].status = "panicked"

\* The top-level call of fold has just returned to its caller.
FoldReturned == Ret("fold") /\ ~Running /\ ~Done("fold_gpu")

N == Len(values)

LeftHalf == SubSeq(values, 1, N \div 2)

RightHalf == SubSeq(values, N \div 2 + 1, N)

Bit(i, b) == (i \div Pow2(b)) % 2

\* Product of the factors fs[j..] whose bit of i is set; factor j (1-based)
\* belongs to bit Len(fs) - j of i.
RECURSIVE WeightFrom(_, _, _)
WeightFrom(i, fs, j) ==
    IF j > Len(fs) THEN OneE
    ELSE MulE(IF Bit(i, Len(fs) - j) = 1 THEN fs[j] ELSE OneE,
              WeightFrom(i, fs, j + 1))

RECURSIVE LeafSum(_, _, _)
LeafSum(vs, fs, i) ==
    IF i >= Len(vs) THEN ZeroE
    ELSE AddE(MulE(Embed(vs[i + 1]), WeightFrom(i, fs, 1)), LeafSum(vs, fs, i + 1))

ClosedForm(vs, fs) == LeafSum(vs, fs, 0)

\* C1: on a valid input fold returns the nested combination unrolled to the
\* leaves: the sum over i of embed(values[i]) times the product of the
\* factors j whose bit k-1-j of i is set; [1..8] with [2,3,4] gives 358.
C1_ClosedForm ==
    (FoldReturned /\ ValidTop) =>
        /\ outcome["fold"].val = ClosedForm(values, folding_factors)
        /\ (values = TestValues /\ folding_factors = TestFactors)
               => outcome["fold"].val = TestExpected

C1_Witness ==
    /\ Ret("fold")
    /\ values = TestValues /\ folding_factors = TestFactors
    /\ outcome["fold"].val = Embed(358)

\* C2: fold panics if and only if len(values) # 2^len(folding_factors).
C2_PanicsIffMismatch ==
    Done("fold") => (Panicked("fold") <=> ~ValidTop)

\* C3: fold_gpu returns what fold returns and panics when fold panics,
\* on every input.
C3_GpuEquivalent ==
    (Done("fold") /\ Done("fold_gpu")) =>
        /\ outcome["fold_gpu"].status = outcome["fold"].status
        /\ Ret("fold") => outcome["fold_gpu"].val = outcome["fold"].val

C3_Witness ==
    /\ Ret("fold") /\ Ret("fold_gpu")
    /\ N >= 4
    /\ outcome["fold_gpu"].val # Embed(values[1])

\* C4: fold([v], []) returns v embedded, with no combine step and no
\* folding factor consumed; fold([5], []) = 5.
C4_BaseCase ==
    (Done("fold") /\ N = 1 /\ folding_factors = <<>>) =>
        /\ Ret("fold")
        /\ outcome["fold"].val = <<values[1], 0, 0, 0>>
        /\ outcome["fold"].cost.combines = 0
        /\ outcome["fold"].cost.factors_used = 0
        /\ outcome["fold"].cost.calls = 1
        /\ values = <<5>> => outcome["fold"].val = <<5, 0, 0, 0>>

C4_Witness ==
    /\ Ret("fold") /\ values = <<5>> /\ folding_factors = <<>>
    /\ outcome["fold"].val = <<5, 0, 0, 0>>

\* C6: the result is affine in the top-level factor: it is L + f * R with
\* L, R the folds of the halves by the tail, and replacing f by f2 changes
\* the result by (f2 - f) * R.
C6_Affine ==
    (FoldReturned /\ ValidTop /\ N >= 2) =>
        LET f    == Head(folding_factors)
            tail == Tail(folding_factors)
            L    == fold(LeftHalf, tail, overflow_checks).val
            R    == fold(RightHalf, tail, overflow_checks).val
        IN  /\ outcome["fold"].val = AddE(L, MulE(f, R))
            /\ \A f2 \in EV \cup {Embed(2), Embed(P - 1)} :
                 SubE(fold(values, <<f2>> \o tail, overflow_checks).val,
                      outcome["fold"].val)
                   = MulE(SubE(f2, f), R)

C6_Witness ==
    /\ FoldReturned /\ ValidTop /\ N >= 4
    /\ Head(folding_factors) = GE
    /\ fold(RightHalf, Tail(folding_factors), overflow_checks).val # ZeroE

\* Statements a call of fold on n = 2^k values executes: 2 in a base case,
\* 5 plus those of its two sub-calls otherwise.
StepsOf(n) == 7 * n - 5

\* The guard of one of the statement actions holds: the innermost invocation
\* is at a statement, not waiting for a sub-call.
CanStep ==
    /\ Running
    /\ Top.pc \in {"assert", "checked", "call_lhs", "call_rhs", "combine"}

\* C5: on a valid input of n = 2^k values fold terminates with a value (a
\* call in progress can always take its next step, and takes fewer than
\* StepsOf(n) of them), after exactly n base cases and n - 1 combine steps,
\* each of one multiplication and one addition in the extension field.
C5_TerminatesCompleteTree ==
    ValidTop =>
        /\ (Running /\ Entry = "fold") =>
              /\ cost.steps < StepsOf(N)
              /\ CanStep
        /\ Done("fold") =>
              /\ Ret("fold")
              /\ outcome["fold"].cost.steps = StepsOf(N)
              /\ outcome["fold"].cost.leaves = N
              /\ outcome["fold"].cost.combines = N - 1
              /\ outcome["fold"].cost.muls = N - 1
              /\ outcome["fold"].cost.adds = N - 1
              /\ outcome["fold"].cost.calls = 2 * N - 1

C5_Witness ==
    /\ ValidTop /\ Ret("fold") /\ N = 4
    /\ outcome["fold"].cost.leaves = 4
    /\ outcome["fold"].cost.combines = 3

SwappedHalves == fold(RightHalf \o LeftHalf, folding_factors, overflow_checks).val

SwappedFactors ==
    fold(values,
         <<folding_factors[2], folding_factors[1]>> \o Tail(Tail(folding_factors)),
         overflow_checks).val

Quarter(q) == SubSeq(values, (q - 1) * (N \div 4) + 1, q * (N \div 4))

\* Every invocation past its split holds the two contiguous halves.
ContiguousHalves ==
    \A i \in 1..Len(stack) :
        stack[i].pc \notin {"assert", "checked"} =>
            /\ stack[i].lhs_values \o stack[i].rhs_values = stack[i].values
            /\ Len(stack[i].lhs_values) = Len(stack[i].rhs_values)

\* C7 as stated: exchanging the halves (n >= 2) or the first two factors
\* (n >= 4) of a valid input changes the result.
C7_SwapAlwaysChanges ==
    (FoldReturned /\ ValidTop /\ N >= 2) =>
        /\ SwappedHalves # outcome["fold"].val
        /\ N >= 4 => SwappedFactors # outcome["fold"].val

\* C7 amended: the split is into contiguous halves; exchanging the halves
\* changes the result exactly when the top factor is not 1 and the halves
\* fold to different values; exchanging the first two factors changes it
\* exactly when they differ and the two middle quarters fold differently.
C7_SwapEffect ==
    /\ ContiguousHalves
    /\ (FoldReturned /\ ValidTop /\ N >= 2) =>
         LET tail == Tail(folding_factors)
             L    == fold(LeftHalf, tail, overflow_checks).val
             R    == fold(RightHalf, tail, overflow_checks).val
         IN  (SwappedHalves # outcome["fold"].val)
                 <=> (Head(folding_factors) # OneE /\ L # R)
    /\ (FoldReturned /\ ValidTop /\ N >= 4) =>
         LET rest == Tail(Tail(folding_factors))
             Q2   == fold(Quarter(2), rest, overflow_checks).val
             Q3   == fold(Quarter(3), rest, overflow_checks).val
         IN  (SwappedFactors # outcome["fold"].val)
                 <=> (folding_factors[1] # folding_factors[2] /\ Q2 # Q3)

C7_Witness ==
    /\ FoldReturned /\ ValidTop /\ N >= 4
    /\ SwappedHalves # outcome["fold"].val
    /\ SwappedFactors # outcome["fold"].val

\* C8: below a valid top-level call every invocation satisfies
\* len(values) = 2^len(folding_factors): each sub-call receives one
\* contiguous half of the values and the factors without the first, so the
\* assertion fails only in the outermost invocation, before any combine.
C8_RelationAtEveryInvocation ==
    /\ ValidTop =>
          /\ \A i \in 1..Len(stack) :
                ValidInput(stack[i].values, stack[i].folding_factors)
          /\ \A e \in Entries : ~Panicked(e)
    /\ \A i \in 2..Len(stack) :
          LET caller == stack[i - 1]
              half   == Len(caller.values) \div 2
          IN  /\ stack[i].folding_factors = Tail(caller.folding_factors)
              /\ Len(stack[i].values) * 2 = Len(caller.values)
              /\ stack[i].values =
                    IF caller.pc = "wait_lhs"
                    THEN SubSeq(caller.values, 1, half)
                    ELSE SubSeq(caller.values, half + 1, 2 * half)
    /\ \A e \in Entries :
          Panicked(e) =>
              outcome[e].depth = 1 /\ outcome[e].cost.combines = 0

C8_Witness ==
    /\ ValidTop /\ Len(stack) = 3
    /\ stack[2].pc = "wait_rhs" /\ stack[3].pc = "checked"

\* The slice of vs that the invocation at path p receives.
RECURSIVE SliceOf(_, _)
SliceOf(vs, p) ==
    IF p = <<>> THEN vs
    ELSE LET half == Len(vs) \div 2 IN
         SliceOf(IF Head(p) = "l" THEN SubSeq(vs, 1, half)
                                  ELSE SubSeq(vs, half + 1, Len(vs)),
                 Tail(p))

\* C9: evaluating the left and right sub-calls in any order or interleaving,
\* joined before the combine step, gives the outcome of the sequential
\* code; every task works on its own slice of the unmodified inputs.
C9_OrderIndependent ==
    /\ Done("fold") =>
         LET seq == fold(values, folding_factors, overflow_checks) IN
         /\ outcome["fold"].status = seq.status
         /\ Ret("fold") => outcome["fold"].val = seq.val
    /\ \A p \in DOMAIN tasks :
         /\ tasks[p].values = SliceOf(values, p)
         /\ tasks[p].folding_factors =
                SubSeq(folding_factors, Len(p) + 1, Len(folding_factors))

\* The right sub-call has returned before the left one has executed its
\* first statement.
C9_Witness ==
    /\ ValidTop /\ N >= 4
    /\ <<>> \in DOMAIN tasks
    /\ tasks[<<>>].have_rhs /\ ~tasks[<<>>].have_lhs
    /\ tasks[<<"l">>].pc = "assert"
    /\ tasks[<<>>].rhs_val # ZeroE

\* C10: a factor list of UsizeBits or more factors is never accepted.
C10_OverflowRejected ==
    \A e \in Entries :
        Len(folding_factors) >= UsizeBits => ~Ret(e)

=============================================================================
